---- MODULE Spec2Model ----
(***************************************************************************)
(* Model of src/app.py: the Olympic medal dashboard.  main() loads an      *)
(* uploaded table, passes it through prepare_data, applies the sidebar     *)
(* filters and hands the filtered table to the aggregation functions.      *)
(*                                                                         *)
(* A table (pandas DataFrame) is a record [cols, rows]: the set of column  *)
(* names and the sequence of rows, each row a function from the column     *)
(* names to cells.  A cell is Num(n), Str(x) or NaN, the missing value.    *)
(***************************************************************************)
EXTENDS Integers, Sequences, FiniteSets, TLC

VARIABLES pc, raw, df, selected_years, selected_countries, selected_sports,
          filtered_df, out

vars == <<pc, raw, df, selected_years, selected_countries, selected_sports,
          filtered_df, out>>

-----------------------------------------------------------------------------
(* Bounds of the model. *)

\* Longest table of the aggregation inputs (InitAgg).
MaxRows == 3

\* Longest uploaded table of the pipeline inputs (Init).
MaxRawRows == 2

\* Largest n passed to the top-n functions.
MaxN == 3

-----------------------------------------------------------------------------
(* Cells. *)

\* A cell holding the number n.
Num(n) == [k |-> "num", v |-> n, s |-> ""]

\* A cell holding the string x.
Str(x) == [k |-> "str", v |-> 0, s |-> x]

\* The missing cell (an empty field of the file).
NaN == [k |-> "nan", v |-> 0, s |-> ""]

IsNum(c) == c.k = "num"

\* The text values of the model in lexicographic order: sorted() and the
\* sorted group keys of groupby compare them this way.
LexOrder == <<"Ann", "Bob", "CountryA", "CountryB", "Judo", "Rowing", "abc">>

LexRank(x) == CHOOSE i \in 1..Len(LexOrder) : LexOrder[i] = x

\* The order of group keys: numbers by value, strings lexicographically.
KeyLess(a, b) ==
    IF IsNum(a) /\ IsNum(b) THEN a.v < b.v ELSE LexRank(a.s) < LexRank(b.s)

RECURSIVE SortAsc(_)
SortAsc(S) ==
    IF S = {} THEN <<>>
    ELSE LET m == CHOOSE x \in S : \A y \in S \ {x} : KeyLess(x, y)
         IN  <<m>> \o SortAsc(S \ {m})

Required == {"Athlete", "Country", "Year", "Sport", "Gold", "Silver", "Bronze"}

None == [cols |-> {"<None>"}, rows |-> <<>>]

Column(t, c) == [i \in 1..Len(t.rows) |-> t.rows[i][c]]

RECURSIVE SeqSum(_)
SeqSum(q) == IF q = <<>> THEN 0 ELSE Head(q) + SeqSum(Tail(q))

\* Series.sum(min_count=1): as SumCells, but missing for a column without a
\* value.
SumCells_min_count(q) ==
    IF \E i \in 1..Len(q) : q[i].k = "str" THEN Str("abc")
    ELSE IF \A i \in 1..Len(q) : ~IsNum(q[i]) THEN NaN
    ELSE Num(SeqSum([i \in 1..Len(q) |-> IF IsNum(q[i]) THEN q[i].v ELSE 0]))

\* Series.sum(): missing cells are skipped (skipna), so an empty or
\* all-missing column sums to 0; a column that holds a string has the object
\* dtype and its sum is no number.
SumCells(q) ==
    IF \E i \in 1..Len(q) : q[i].k = "str" THEN Str("abc")
    ELSE Num(SeqSum([i \in 1..Len(q) |-> IF IsNum(q[i]) THEN q[i].v ELSE 0]))

\* Series.unique(): the distinct values, the missing one included.
Unique(q) == {q[i] : i \in 1..Len(q)}

\* Series.nunique(): the number of distinct non-missing values.
NUnique(q) == Cardinality(Unique(q) \ {NaN})

-----------------------------------------------------------------------------
(* prepare_data, lines 50-59. *)

Rename(t, old, new) ==
    [cols |-> (t.cols \ {old}) \cup {new},
     rows |-> [i \in 1..Len(t.rows) |->
                 [c \in (t.cols \ {old}) \cup {new} |->
                     IF c = new THEN t.rows[i][old] ELSE t.rows[i][c]]]]

prepare_data(t) ==
    IF t = None THEN None
    ELSE IF "Total" \in t.cols /\ "Total_Medals" \notin t.cols
         THEN Rename(t, "Total", "Total_Medals")
         ELSE t

-----------------------------------------------------------------------------
(* Results of a call: err is "" when the call returned val. *)

Ok(v) == [err |-> "", val |-> v]

Raise(e) == [err |-> e, val |-> <<>>]

NoCall == [fn |-> "", arg |-> 0, res |-> Ok(<<>>)]

Call(f, a, r) == [fn |-> f, arg |-> a, res |-> r]

-----------------------------------------------------------------------------
(* get_medal_summary, lines 61-77. *)

get_medal_summary(t) ==
    IF ~({"Total_Medals", "Gold", "Silver", "Bronze", "Athlete", "Country"}
            \subseteq t.cols)
    THEN Raise("KeyError")
    ELSE Ok([total_medals    |-> SumCells(Column(t, "Total_Medals")),
             total_gold      |-> SumCells(Column(t, "Gold")),
             total_silver    |-> SumCells(Column(t, "Silver")),
             total_bronze    |-> SumCells(Column(t, "Bronze")),
             total_athletes  |-> NUnique(Column(t, "Athlete")),
             total_countries |-> NUnique(Column(t, "Country"))])

-----------------------------------------------------------------------------
(* Series: sequences of entries, each with a key and a val. *)

Min(a, b) == IF a < b THEN a ELSE b

\* Series.head(n), n >= 0.
Head_n(q, n) == SubSeq(q, 1, Min(n, Len(q)))

Perms(n) == {p \in [1..n -> 1..n] : \A i, j \in 1..n : p[i] = p[j] => i = j}

\* A ratio of two sums as float division gives it: n/d, and for d = 0 the
\* values inf (n > 0) and NaN (n = 0), without an exception.  The sums of the
\* model's tables are never negative.
Ratio(n, d) ==
    [k |-> IF d # 0 THEN "ratio" ELSE IF n > 0 THEN "inf" ELSE "nan",
     n |-> n, d |-> d]

\* a >= b for two non-missing values: numbers, or ratios (inf included).
ValGeq(a, b) ==
    IF a.k = "num" THEN a.v >= b.v
    ELSE IF a.k = "inf" THEN TRUE
    ELSE IF b.k = "inf" THEN FALSE
    ELSE a.n * b.d >= b.n * a.d

\* sort_values(ascending=False), default kind 'quicksort' and na_position
\* 'last', of the entries q by their values v: the non-missing entries in
\* non-increasing order, then the missing ones in their original order.
\* quicksort is not stable, so the order of equal values is not determined:
\* every such order is an outcome.
DescOrders(q, v) ==
    LET idx == [i \in 1..Len(q) |-> i]
        nm == SelectSeq(idx, LAMBDA i : v[i].k # "nan")
        na == SelectSeq(idx, LAMBDA i : v[i].k = "nan")
    IN  {[i \in 1..Len(nm) |-> q[nm[p[i]]]] \o [i \in 1..Len(na) |-> q[na[i]]] :
            p \in {x \in Perms(Len(nm)) :
                      \A i \in 1..(Len(nm) - 1) : ValGeq(v[nm[x[i]]], v[nm[x[i + 1]]])}}

\* sort_values() with the default ascending=True.
sort_values_asc(q) ==
    {[i \in 1..Len(r) |-> r[Len(r) + 1 - i]] : r \in DescOrders(q, [i \in 1..Len(q) |-> q[i].val])}

sort_values_desc(q) == DescOrders(q, [i \in 1..Len(q) |-> q[i].val])

\* The rows of t whose column c holds x.
RowsWith(t, c, x) == [cols |-> t.cols, rows |-> SelectSeq(t.rows, LAMBDA r : r[c] = x)]

\* The group keys of df.groupby(c): the distinct non-missing values, sorted.
GroupKeys(t, c) == SortAsc(Unique(Column(t, c)) \ {NaN})

\* df.groupby(kc)[vc].sum()
GroupSum(t, kc, vc) ==
    LET keys == GroupKeys(t, kc)
    IN  [i \in 1..Len(keys) |->
            [key |-> keys[i], val |-> SumCells(Column(RowsWith(t, kc, keys[i]), vc))]]

-----------------------------------------------------------------------------
(* The aggregation functions, lines 79-118.  Each gives the set of results  *)
(* the call can have.                                                        *)

\* Lines 79-81.
get_top_countries(t, n) ==
    IF ~({"Country", "Total_Medals"} \subseteq t.cols) THEN {Raise("KeyError")}
    ELSE {Ok(Head_n(r, n)) : r \in sort_values_desc(GroupSum(t, "Country", "Total_Medals"))}

\* 'first' of a group: its first non-missing value in row order.
First(q) ==
    IF \A i \in 1..Len(q) : q[i] = NaN THEN NaN
    ELSE q[CHOOSE i \in 1..Len(q) : q[i] # NaN /\ \A j \in 1..(i - 1) : q[j] = NaN]

\* Lines 83-92.
get_top_athletes(t, n) ==
    IF ~({"Athlete", "Total_Medals", "Gold", "Silver", "Bronze", "Country", "Sport"}
            \subseteq t.cols)
    THEN {Raise("KeyError")}
    ELSE LET keys == GroupKeys(t, "Athlete")
             agg == [i \in 1..Len(keys) |->
                       LET g == RowsWith(t, "Athlete", keys[i])
                       IN  [key |-> keys[i],
                            val |-> SumCells(Column(g, "Total_Medals")),
                            Gold |-> SumCells(Column(g, "Gold")),
                            Silver |-> SumCells(Column(g, "Silver")),
                            Bronze |-> SumCells(Column(g, "Bronze")),
                            Country |-> First(Column(g, "Country")),
                            Sport |-> First(Column(g, "Sport"))]]
         IN  {Ok(Head_n(r, n)) : r \in sort_values_desc(agg)}

\* Lines 94-96.
get_medals_by_sport(t) ==
    IF ~({"Sport", "Total_Medals"} \subseteq t.cols) THEN {Raise("KeyError")}
    ELSE {Ok(r) : r \in sort_values_desc(GroupSum(t, "Sport", "Total_Medals"))}

\* Lines 98-102.  The two series have the same keys; a string sum cannot be
\* divided (TypeError).
get_gold_proportion(t) ==
    IF ~({"Country", "Gold", "Total_Medals"} \subseteq t.cols) THEN {Raise("KeyError")}
    ELSE LET gold_total == GroupSum(t, "Country", "Gold")
             total_medals == GroupSum(t, "Country", "Total_Medals")
         IN  IF \E i \in 1..Len(gold_total) :
                    ~IsNum(gold_total[i].val) \/ ~IsNum(total_medals[i].val)
             THEN {Raise("TypeError")}
             ELSE {Ok(r) : r \in sort_values_desc(
                     [i \in 1..Len(gold_total) |->
                        [key |-> gold_total[i].key,
                         val |-> Ratio(gold_total[i].val.v, total_medals[i].val.v)]])}

\* Lines 104-106.
get_athletes_per_country(t) ==
    IF ~({"Country", "Athlete"} \subseteq t.cols) THEN {Raise("KeyError")}
    ELSE LET keys == GroupKeys(t, "Country")
         IN  {Ok(r) : r \in sort_values_desc(
                 [i \in 1..Len(keys) |->
                    [key |-> keys[i],
                     val |-> Num(NUnique(Column(RowsWith(t, "Country", keys[i]), "Athlete")))]])}

\* Lines 108-110.
get_year_medals(t, year) ==
    IF ~({"Year", "Country", "Total_Medals"} \subseteq t.cols) THEN {Raise("KeyError")}
    ELSE {Ok(r) : r \in sort_values_desc(
             GroupSum(RowsWith(t, "Year", year), "Country", "Total_Medals"))}

RECURSIVE Concat(_)
Concat(qq) == IF qq = <<>> THEN <<>> ELSE Head(qq) \o Concat(Tail(qq))

\* Lines 114-115: one row per (Country, Year) present in t, Total_Medals
\* summed, ordered by Country, then Year.
country_year(t) ==
    LET cs == GroupKeys(t, "Country")
    IN  Concat([i \in 1..Len(cs) |->
                  LET g == RowsWith(t, "Country", cs[i])
                      ys == GroupKeys(g, "Year")
                  IN  [j \in 1..Len(ys) |->
                         [Country |-> cs[i], Year |-> ys[j],
                          Total_Medals |->
                              SumCells(Column(RowsWith(g, "Year", ys[j]), "Total_Medals"))]]])

\* Line 116: groupby('Country')['Total_Medals'].diff(): missing on the first
\* row of each country.
with_delta(cy) ==
    [i \in 1..Len(cy) |->
        [Country |-> cy[i].Country, Year |-> cy[i].Year,
         Total_Medals |-> cy[i].Total_Medals,
         Delta |-> IF i = 1 \/ cy[i - 1].Country # cy[i].Country THEN NaN
                   ELSE Num(cy[i].Total_Medals.v - cy[i - 1].Total_Medals.v)]]

\* idxmax giving, for a group whose Delta is missing throughout, the label of
\* its first row (as a fillna before it would).
idxmax_first(cyd, c) ==
    LET I == {i \in 1..Len(cyd) : cyd[i].Country = c /\ cyd[i].Delta # NaN}
        G == {i \in 1..Len(cyd) : cyd[i].Country = c}
    IN  IF I = {} THEN CHOOSE i \in G : \A j \in G : i <= j
        ELSE CHOOSE i \in I :
                /\ \A j \in I : cyd[i].Delta.v >= cyd[j].Delta.v
                /\ \A j \in I : cyd[j].Delta.v = cyd[i].Delta.v => i <= j

\* Line 117: groupby('Country')['Delta'].idxmax() for country c: the label of
\* the first row holding the largest non-missing Delta; 0 stands for the
\* missing label of a group whose Delta is missing throughout.
idxmax(cyd, c) ==
    LET I == {i \in 1..Len(cyd) : cyd[i].Country = c /\ cyd[i].Delta # NaN}
    IN  IF I = {} THEN 0
        ELSE CHOOSE i \in I :
                /\ \A j \in I : cyd[i].Delta.v >= cyd[j].Delta.v
                /\ \A j \in I : cyd[j].Delta.v = cyd[i].Delta.v => i <= j

\* Lines 112-118.  A missing label makes idxmax raise ValueError (pandas 3)
\* or .loc raise KeyError (pandas 1 and 2).
calculate_improvement(t) ==
    IF ~({"Country", "Year", "Total_Medals"} \subseteq t.cols) THEN {Raise("KeyError")}
    ELSE LET cyd == with_delta(country_year(t))
             cs == GroupKeys(t, "Country")
             present == SelectSeq(cs, LAMBDA c : \E i \in 1..Len(cyd) : cyd[i].Country = c)
             labels == [i \in 1..Len(present) |-> idxmax(cyd, present[i])]
         IN  IF \E i \in 1..Len(labels) : labels[i] = 0
             THEN {Raise("KeyError"), Raise("ValueError")}
             ELSE {Ok(r) : r \in DescOrders([i \in 1..Len(labels) |-> cyd[labels[i]]],
                                            [i \in 1..Len(labels) |-> cyd[labels[i]].Delta])}

-----------------------------------------------------------------------------
(* The uploaded tables. *)

RECURSIVE SeqsUpTo(_, _)
SeqsUpTo(S, n) ==
    IF n = 0 THEN {<<>>}
    ELSE LET shorter == SeqsUpTo(S, n - 1)
         IN  shorter \cup {Append(s, x) : s \in {q \in shorter : Len(q) = n - 1}, x \in S}

Restrict(r, cs) == [c \in cs |-> r[c]]

Row(a, c, y, sp, g, tot) ==
    [Athlete |-> a, Country |-> c, Year |-> y, Sport |-> sp, Gold |-> g,
     Silver |-> Num(0), Bronze |-> Num(0), Total |-> tot, Total_Medals |-> tot]

\* Rows of an uploaded file as pd.read_csv (line 130) returns them: nothing
\* is validated, so a cell may be missing, a medal count may be a string, and
\* the total need not be the sum of the three medal counts.
RawRows ==
    {Row(Str("Ann"), c, y, Str("Judo"), Num(1), tot) :
        c \in {Str("CountryA"), Str("CountryB")}, y \in {Num(2000), Num(2004)},
        tot \in {Num(1), Num(3)}}
    \cup {Row(Str("Ann"), Str("CountryA"), Num(2000), Str("Rowing"), Num(0), Num(0)),
          Row(NaN, Str("CountryA"), Num(2000), Str("Judo"), Num(1), Num(1)),
          Row(Str("Ann"), NaN, Num(2000), Str("Judo"), Num(1), Num(1)),
          Row(Str("Ann"), Str("CountryA"), NaN, Str("Judo"), Num(1), Num(1)),
          Row(Str("Ann"), Str("CountryA"), Num(2000), Str("Judo"), NaN, Num(1)),
          Row(Str("Ann"), Str("CountryA"), Num(2000), Str("Judo"), Str("abc"), Num(1))}

ColumnSets ==
    {Required \cup {"Total"}, Required \cup {"Total_Medals"}, Required,
     Required \cup {"Total", "Total_Medals"},
     (Required \ {"Gold"}) \cup {"Total"},
     (Required \ {"Year"}) \cup {"Total"},
     (Required \ {"Athlete"}) \cup {"Total"}}

RowsOver(cs) == {Restrict(r, cs) : r \in RawRows}

TablesOver(cs) == {[cols |-> cs, rows |-> rs] : rs \in SeqsUpTo(RowsOver(cs), MaxRawRows)}

RawTables == UNION {TablesOver(cs) : cs \in ColumnSets}

-----------------------------------------------------------------------------
(* main, lines 121-170: upload, prepare_data, sidebar filters. *)

Init ==
    /\ pc = "uploaded"
    /\ raw \in RawTables
    /\ df = None
    /\ selected_years = {}
    /\ selected_countries = {}
    /\ selected_sports = {}
    /\ filtered_df = None
    /\ out = NoCall

\* Lines 130-131.
PrepareData ==
    /\ pc = "uploaded"
    /\ df' = prepare_data(raw)
    /\ pc' = "prepared"
    /\ UNCHANGED <<raw, selected_years, selected_countries, selected_sports,
                   filtered_df, out>>

\* sorted(df[c].unique()) raises TypeError when the column mixes strings with
\* the float NaN of a missing cell.
SortedRaises(t, c) ==
    /\ NaN \in Unique(Column(t, c))
    /\ \E x \in Unique(Column(t, c)) : x.k = "str"

\* Lines 137-158 raise: a filter column is absent (KeyError) or cannot be
\* sorted (TypeError); the script run ends there.
SidebarError(t) ==
    IF ~({"Year", "Country", "Sport"} \subseteq t.cols) THEN "KeyError"
    ELSE IF SortedRaises(t, "Country") \/ SortedRaises(t, "Sport") THEN "TypeError"
    ELSE ""

SidebarRaises ==
    /\ pc = "prepared"
    /\ SidebarError(df) # ""
    /\ pc' = "crashed"
    /\ out' = Call("main", 0, Raise(SidebarError(df)))
    /\ UNCHANGED <<raw, df, selected_years, selected_countries, selected_sports,
                   filtered_df>>

\* Lines 161-165.
apply_filters(t, years, countries, sports) ==
    LET byYear == SelectSeq(t.rows, LAMBDA r : r["Year"] \in years)
        byCountry == IF countries # {}
                     THEN SelectSeq(byYear, LAMBDA r : r["Country"] \in countries)
                     ELSE byYear
        bySport == IF sports # {}
                   THEN SelectSeq(byCountry, LAMBDA r : r["Sport"] \in sports)
                   ELSE byCountry
    IN  [cols |-> t.cols, rows |-> bySport]

\* Lines 134-165: the user picks any subset of the options of each
\* multiselect, then the filters are applied.
SidebarFilters ==
    /\ pc = "prepared"
    /\ SidebarError(df) = ""
    /\ \E ys \in SUBSET Unique(Column(df, "Year")),
          cs \in SUBSET Unique(Column(df, "Country")),
          ss \in SUBSET Unique(Column(df, "Sport")) :
            /\ selected_years' = ys
            /\ selected_countries' = cs
            /\ selected_sports' = ss
            /\ filtered_df' = apply_filters(df, ys, cs, ss)
    /\ pc' = "filtered"
    /\ UNCHANGED <<raw, df, out>>

\* The calls main makes on the filtered table, each taken on its own: pc
\* "returned" is the call having returned, "crashed" an exception having ended
\* the script run.

\* Line 169.
Summary ==
    /\ pc = "filtered"
    /\ out' = Call("get_medal_summary", 0, get_medal_summary(filtered_df))
    /\ pc' = IF get_medal_summary(filtered_df).err = "" THEN "returned" ELSE "crashed"
    /\ UNCHANGED <<raw, df, selected_years, selected_countries, selected_sports,
                   filtered_df>>

\* A call of main outside a try block: an exception ends the script run.
Returns(f, a, results) ==
    /\ pc = "filtered"
    /\ \E r \in results :
          /\ out' = Call(f, a, r)
          /\ pc' = IF r.err = "" THEN "returned" ELSE "crashed"
    /\ UNCHANGED <<raw, df, selected_years, selected_countries, selected_sports,
                   filtered_df>>

\* Lines 203, 219.
TopCountries ==
    \E n \in 0..MaxN : Returns("get_top_countries", n, get_top_countries(filtered_df, n))

\* Line 237.
GoldProportion == Returns("get_gold_proportion", 0, get_gold_proportion(filtered_df))

\* Line 250.
AthletesPerCountry ==
    Returns("get_athletes_per_country", 0, get_athletes_per_country(filtered_df))

\* Line 265.
TopAthletes ==
    \E n \in 0..MaxN : Returns("get_top_athletes", n, get_top_athletes(filtered_df, n))

\* Line 312.
MedalsBySport == Returns("get_medals_by_sport", 0, get_medals_by_sport(filtered_df))

\* Lines 362-367: the year is one of the years of df.
YearMedals ==
    /\ pc = "filtered"
    /\ \E y \in Unique(Column(df, "Year")) \ {NaN} :
          Returns("get_year_medals", y.v, get_year_medals(filtered_df, y))

\* Lines 404-430: an exception of calculate_improvement is caught and shown,
\* and the script goes on.
Improvement ==
    /\ pc = "filtered"
    /\ \E r \in calculate_improvement(filtered_df) :
          out' = Call("calculate_improvement", 0, r)
    /\ pc' = "returned"
    /\ UNCHANGED <<raw, df, selected_years, selected_countries, selected_sports,
                   filtered_df>>

Next ==
    \/ PrepareData
    \/ SidebarRaises
    \/ SidebarFilters
    \/ Summary
    \/ TopCountries
    \/ GoldProportion
    \/ AthletesPerCountry
    \/ TopAthletes
    \/ MedalsBySport
    \/ YearMedals
    \/ Improvement

Spec == Init /\ [][Next]_vars

-----------------------------------------------------------------------------
(* The aggregation functions on well-formed tables: the state main is in   *)
(* after lines 130-165 with the widgets at their defaults (every year      *)
(* selected, no country, no sport), for an uploaded table that has every   *)
(* column of the expected format, numeric cells and Total_Medals equal to  *)
(* the sum of the three medal counts.                                      *)

NormalizedCols == Required \cup {"Total_Medals"}

NRow(c, y, g, sv) ==
    [Athlete |-> Str("Ann"), Country |-> c, Year |-> y, Sport |-> Str("Judo"),
     Gold |-> Num(g), Silver |-> Num(sv), Bronze |-> Num(0), Total_Medals |-> Num(g + sv)]

AggRows ==
    {NRow(c, y, m[1], m[2]) :
        c \in {Str("CountryA"), Str("CountryB")},
        y \in {Num(2000), Num(2004), Num(2008)},
        m \in {<<0, 0>>, <<1, 0>>, <<0, 1>>}}

\* The table of the improvement example: CountryA with 10, 15 and 12 medals
\* in 2000, 2004 and 2008, CountryB with 5 medals in 2000.
Scenario ==
    [cols |-> NormalizedCols,
     rows |-> <<NRow(Str("CountryA"), Num(2000), 10, 0),
                NRow(Str("CountryA"), Num(2004), 15, 0),
                NRow(Str("CountryA"), Num(2008), 12, 0),
                NRow(Str("CountryB"), Num(2000), 5, 0)>>]

AggTables ==
    {[cols |-> NormalizedCols, rows |-> rs] : rs \in SeqsUpTo(AggRows, MaxRows)}
        \cup {Scenario}

InitAgg ==
    /\ pc = "filtered"
    /\ raw \in AggTables
    /\ df = prepare_data(raw)
    /\ selected_years = Unique(Column(df, "Year"))
    /\ selected_countries = {}
    /\ selected_sports = {}
    /\ filtered_df = apply_filters(df, selected_years, selected_countries, selected_sports)
    /\ out = NoCall

NextAgg ==
    \/ Summary
    \/ TopCountries
    \/ GoldProportion
    \/ AthletesPerCountry
    \/ TopAthletes
    \/ MedalsBySport
    \/ YearMedals
    \/ Improvement

SpecAgg == InitAgg /\ [][NextAgg]_vars

-----------------------------------------------------------------------------
(* Reference definitions of the properties: computed from the rows of a    *)
(* table, without the operators above.                                      *)

RECURSIVE SetSum(_, _)
SetSum(S, f) ==
    IF S = {} THEN 0
    ELSE LET i == CHOOSE j \in S : TRUE IN f[i] + SetSum(S \ {i}, f)

RowIdx(t) == 1..Len(t.rows)

CountriesOf(t) == {t.rows[i].Country : i \in RowIdx(t)} \ {NaN}

\* The sum of the numeric column c over the rows of country x.
CountrySum(t, x, c) ==
    SetSum({i \in RowIdx(t) : t.rows[i].Country = x}, [i \in RowIdx(t) |-> t.rows[i][c].v])

YearsOf(t, x) ==
    {t.rows[i].Year.v : i \in {j \in RowIdx(t) : t.rows[j].Country = x /\ IsNum(t.rows[j].Year)}}

\* Total_Medals of country x summed over its rows of year y.
YearTotal(t, x, y) ==
    SetSum({i \in RowIdx(t) : t.rows[i].Country = x /\ t.rows[i].Year = Num(y)},
           [i \in RowIdx(t) |-> t.rows[i].Total_Medals.v])

\* The year of x before y, and the change from it to y.
PrevYear(t, x, y) ==
    CHOOSE p \in YearsOf(t, x) : p < y /\ \A q \in YearsOf(t, x) : q < y => q <= p

DeltaAt(t, x, y) == YearTotal(t, x, y) - YearTotal(t, x, PrevYear(t, x, y))

LaterYears(t, x) == {y \in YearsOf(t, x) : \E p \in YearsOf(t, x) : p < y}

Eligible(t) == {x \in CountriesOf(t) : Cardinality(YearsOf(t, x)) >= 2}

\* The row improvement is to return for an eligible country: its largest
\* Delta, at the earliest year that attains it.
BestRow(t, x) ==
    LET y == CHOOSE y1 \in LaterYears(t, x) :
                /\ \A y2 \in LaterYears(t, x) : DeltaAt(t, x, y1) >= DeltaAt(t, x, y2)
                /\ \A y2 \in LaterYears(t, x) :
                      DeltaAt(t, x, y2) = DeltaAt(t, x, y1) => y1 <= y2
    IN  [Country |-> x, Year |-> Num(y), Total_Medals |-> Num(YearTotal(t, x, y)),
         Delta |-> Num(DeltaAt(t, x, y))]

Called(f) == pc \in {"returned", "crashed"} /\ out.fn = f

Returned(f) == Called(f) /\ out.res.err = ""

-----------------------------------------------------------------------------
(* C1: every row of the table prepare_data returns has Total_Medals equal  *)
(* to Gold + Silver + Bronze, whether or not the uploaded table has a      *)
(* Total or Total_Medals column and whatever that column holds.            *)
(* Violated: prepare_data only renames Total and keeps its values.         *)
C1_TotalRecomputed ==
    (pc # "uploaded" /\ Required \subseteq raw.cols) =>
        \A i \in RowIdx(df) :
            LET r == df.rows[i]
            IN  (IsNum(r.Gold) /\ IsNum(r.Silver) /\ IsNum(r.Bronze)) =>
                    /\ "Total_Medals" \in df.cols
                    /\ r.Total_Medals = Num(r.Gold.v + r.Silver.v + r.Bronze.v)

-----------------------------------------------------------------------------
-----------------------------------------------------------------------------
(* C3: calculate_improvement returns exactly one row for each country with *)
(* at least 2 distinct years, holding the largest consecutive-year change  *)
(* of its summed Total_Medals at the earliest year attaining it, the rows  *)
(* ordered by Delta non-increasing; the example table yields the single    *)
(* row (CountryA, 2004, 15, Delta 5).                                      *)
(* Violated: with a single-year country in the table the call raises.      *)
C3_BestRowPerCountry ==
    Called("calculate_improvement") =>
        /\ out.res.err = ""
        /\ Len(out.res.val) = Cardinality(Eligible(filtered_df))
        /\ {out.res.val[i] : i \in 1..Len(out.res.val)}
             = {BestRow(filtered_df, x) : x \in Eligible(filtered_df)}
        /\ \A i \in 1..(Len(out.res.val) - 1) :
              out.res.val[i].Delta.v >= out.res.val[i + 1].Delta.v
        /\ filtered_df = Scenario =>
              out.res.val = <<[Country |-> Str("CountryA"), Year |-> Num(2004),
                               Total_Medals |-> Num(15), Delta |-> Num(5)]>>

-----------------------------------------------------------------------------
(* C4: get_gold_proportion returns an entry only for countries whose       *)
(* summed Total_Medals is positive, never a NaN, and every fraction is     *)
(* sum(Gold)/sum(Total_Medals) and lies in [0,1].                          *)
(* Violated: a country without medals gets the entry 0/0 = NaN.            *)
C4_GoldProportionDefined ==
    Called("get_gold_proportion") =>
        /\ out.res.err = ""
        /\ \A i \in 1..Len(out.res.val) :
              LET e == out.res.val[i]
              IN  /\ CountrySum(filtered_df, e.key, "Total_Medals") > 0
                  /\ e.val.k = "ratio"
                  /\ e.val.n = CountrySum(filtered_df, e.key, "Gold")
                  /\ e.val.d = CountrySum(filtered_df, e.key, "Total_Medals")
                  /\ 0 <= e.val.n /\ e.val.n <= e.val.d

-----------------------------------------------------------------------------
(* C5: the filter step returns exactly the rows that satisfy each dimension *)
(* whose selection is non-empty; an empty selection of years, countries or *)
(* sports restricts nothing.                                                *)
(* Violated: line 161 filters by Year unconditionally, so an empty         *)
(* selection of years leaves no row.                                       *)
C5_EmptySelectionPassesAll ==
    pc = "filtered" =>
        filtered_df.rows =
            SelectSeq(df.rows,
                      LAMBDA r :
                          /\ selected_years = {} \/ r.Year \in selected_years
                          /\ selected_countries = {} \/ r.Country \in selected_countries
                          /\ selected_sports = {} \/ r.Sport \in selected_sports)

-----------------------------------------------------------------------------
(* C6: the table prepare_data returns for an uploaded table with the       *)
(* required columns has no row with a missing Year, Country or Athlete,    *)
(* such rows being dropped and no other, and its Gold, Silver and Bronze   *)
(* are non-negative integers.                                              *)
(* Violated: prepare_data drops and coerces nothing.                       *)
C6_RowsCleaned ==
    (pc # "uploaded" /\ Required \subseteq raw.cols) =>
        /\ \A i \in RowIdx(df) :
              LET r == df.rows[i]
              IN  /\ r.Year # NaN /\ r.Country # NaN /\ r.Athlete # NaN
                  /\ \A c \in {"Gold", "Silver", "Bronze"} : IsNum(r[c]) /\ r[c].v >= 0
        /\ Len(df.rows) =
              Cardinality({i \in RowIdx(raw) :
                              /\ raw.rows[i].Year # NaN
                              /\ raw.rows[i].Country # NaN
                              /\ raw.rows[i].Athlete # NaN})

-----------------------------------------------------------------------------
(* C7: prepare_data of an uploaded table that lacks a required column ends *)
(* in a SchemaError and returns no table, and no aggregation runs on it.   *)
(* Violated: prepare_data returns the table as it is; the script goes on   *)
(* until a KeyError.                                                       *)
C7_SchemaErrorOnMissingColumn ==
    (pc # "uploaded" /\ ~(Required \subseteq raw.cols)) =>
        /\ df = None
        /\ pc = "crashed"
        /\ out.fn = "prepare_data"
        /\ out.res.err = "SchemaError"

-----------------------------------------------------------------------------
(* C8: get_top_countries(table, n) returns min(n, number of distinct       *)
(* countries) entries, each a country with its summed Total_Medals, the    *)
(* values non-increasing, and no country left out has a larger sum than a  *)
(* country returned.                                                       *)
C8_TopCountries ==
    Called("get_top_countries") =>
        LET t == filtered_df
            r == out.res.val
            kept == {r[i].key : i \in 1..Len(r)}
        IN  /\ out.res.err = ""
            /\ Len(r) = Min(out.arg, Cardinality(CountriesOf(t)))
            /\ Cardinality(kept) = Len(r)
            /\ \A i \in 1..Len(r) :
                  /\ r[i].key \in CountriesOf(t)
                  /\ r[i].val = Num(CountrySum(t, r[i].key, "Total_Medals"))
            /\ \A i \in 1..(Len(r) - 1) : r[i].val.v >= r[i + 1].val.v
            /\ \A x \in CountriesOf(t) \ kept : \A i \in 1..Len(r) :
                  CountrySum(t, x, "Total_Medals") <= r[i].val.v

\* The cut at n happened: two countries with different sums, the top one
\* returned.
C8_Witness ==
    /\ Called("get_top_countries")
    /\ out.arg = 1
    /\ Cardinality(CountriesOf(filtered_df)) = 2
    /\ Len(out.res.val) = 1
    /\ \E x \in CountriesOf(filtered_df) :
          CountrySum(filtered_df, x, "Total_Medals") < out.res.val[1].val.v

-----------------------------------------------------------------------------
(* C9: the total_medals that get_medal_summary returns for the prepared    *)
(* and filtered table is total_gold + total_silver + total_bronze.         *)
(* Violated: Total_Medals is the uploaded Total column (C1).               *)
C9_SummaryTotalIsSum ==
    Returned("get_medal_summary") =>
        LET v == out.res.val
        IN  /\ IsNum(v.total_medals) /\ IsNum(v.total_gold)
            /\ IsNum(v.total_silver) /\ IsNum(v.total_bronze)
            /\ v.total_medals.v = v.total_gold.v + v.total_silver.v + v.total_bronze.v

-----------------------------------------------------------------------------
(* C10: on an empty table with the columns of a Table no aggregation       *)
(* function raises: the summary is 0 in its four sums and two distinct     *)
(* counts, the rankings are empty and so is the improvement table.         *)
AggregationNames ==
    {"get_medal_summary", "get_top_countries", "get_top_athletes",
     "get_medals_by_sport", "get_gold_proportion", "get_athletes_per_country",
     "get_year_medals", "calculate_improvement"}

C10_EmptyTableNoError ==
    (/\ pc \in {"returned", "crashed"}
     /\ out.fn \in AggregationNames
     /\ NormalizedCols \subseteq filtered_df.cols
     /\ filtered_df.rows = <<>>) =>
        /\ out.res.err = ""
        /\ out.fn = "get_medal_summary" =>
              out.res.val = [total_medals |-> Num(0), total_gold |-> Num(0),
                             total_silver |-> Num(0), total_bronze |-> Num(0),
                             total_athletes |-> 0, total_countries |-> 0]
        /\ out.fn # "get_medal_summary" => out.res.val = <<>>

\* The filters excluded every row of a table that has rows, and the
\* improvement was computed on the empty table.
C10_Witness ==
    /\ Returned("calculate_improvement")
    /\ NormalizedCols \subseteq filtered_df.cols
    /\ df.rows # <<>>
    /\ filtered_df.rows = <<>>

-----------------------------------------------------------------------------
(* C11: in get_top_countries, of two countries with equal summed           *)
(* Total_Medals the one whose first row comes earlier in the table is      *)
(* ranked before the other, also across the cut at n: a country left out   *)
(* with the sum of a country returned has its first row later.             *)
(* Violated: groupby orders the groups by country name, not by first row,  *)
(* and the sort does not keep the order of equal sums.                     *)
FirstRowOf(t, x) ==
    CHOOSE i \in RowIdx(t) :
        t.rows[i].Country = x /\ \A j \in 1..(i - 1) : t.rows[j].Country # x

C11_TiesByFirstSeen ==
    Called("get_top_countries") =>
        LET t == filtered_df
            r == out.res.val
            kept == {r[i].key : i \in 1..Len(r)}
        IN  /\ \A i, j \in 1..Len(r) :
                  (i < j /\ r[i].val = r[j].val) =>
                      FirstRowOf(t, r[i].key) < FirstRowOf(t, r[j].key)
            /\ \A x \in CountriesOf(t) \ kept : \A i \in 1..Len(r) :
                  CountrySum(t, x, "Total_Medals") = r[i].val.v =>
                      FirstRowOf(t, r[i].key) < FirstRowOf(t, x)

====
